---- MODULE Spec2Model ----
(***************************************************************************)
(* Multi-ROACH spectrometer back end: acquisition units (SAOfwif.action),  *)
(* the server-side fan-in combiner (DataCombiner / RoachCombiner), the     *)
(* control surface of SAObackend (start, sync_start, reset_scans) and the  *)
(* client-side scan tracker (SAOclient.start_handler / combine_spectra).   *)
(***************************************************************************)
EXTENDS Integers, Sequences, FiniteSets, TLC

(* ------------------------------ bounds -------------------------------- *)
\* number of configured ROACH units (roachlist)
NUnits == 2
\* largest n_accums a start() call asks for
MaxCount == 2
\* number of external control commands (start, sync_start, reset_scans)
MaxCmds == 2
\* number of events the environment of the two combiners produces
MaxEvents == 3
\* largest scan / record number in those events
MaxKey == 2
\* number of subscribers whose invocation returns normally
MaxSubs == 1
\* number of get_current_scans / get_current_accums calls
MaxQueries == 1
\* number of channels of a spectrum (len(self.freqs) of the client)
NChan == 1
\* number of failed attempts to open a data file that are told apart
MaxTries == 3
\* number of control commands in a run whose scans are started in order
MaxOrderly == 3

(* ----------------------------- constants ------------------------------ *)
\* initial SAOfwif.max_count
InitMaxCount == 1
\* n_accums of the end-to-end test run
TestAccums == 3
\* python None (the "data" of a "new scan" message, an unset scan or record)
None == -1

(* ------------------------------ helpers ------------------------------- *)
\* an empty python dict
EmptyDict == << >>

\* d[k] = v on a python dict
DictPut(d, k, v) == [x \in (DOMAIN d) \cup {k} |-> IF x = k THEN v ELSE d[x]]

\* len(d) of a python dict
DictLen(d) == Cardinality(DOMAIN d)

\* self._roachkeys: the sorted list of unit names, also the combiner's
\* dsplist and the client's roachnames
dsplist == [i \in 1..NUnits |-> i]

\* the keys of SAObackend.roach
Units == {dsplist[i] : i \in DOMAIN dsplist}

(* ------------------------------- state -------------------------------- *)
VARIABLES
  scan,            \* SAOfwif.scan, per unit
  spectrum_count,  \* SAOfwif.spectrum_count, per unit
  max_count,       \* SAOfwif.max_count, per unit
  thread_suspend,  \* DeviceReadThread.thread_suspend, per unit
  pc,              \* position of the unit thread inside action()
  cycles,          \* per unit: number of action() entries (the UNIXtime stamp)
  start_cb,        \* SAObackend.start.cb: the subscriber of the last start()
  ctl,             \* the thread executing SAObackend.start()
  cmds,            \* number of control commands issued so far
  inqueue,         \* DataCombiner.inqueue
  spectra_dict,    \* DataCombiner.spectra_dict
  timedata,        \* DataCombiner.timedata
  composites,      \* messages handed to process_data, in order
  received,        \* messages the subscriber's handler has been invoked with
  scans,           \* SAOclient.scans
  combinerQueue,   \* SAOclient.combinerQueue
  c_spectra_dict,  \* SAOclient.spectra_dict
  c_out,           \* messages handed to parent.start_spec_cb_handler
  sent,            \* per unit: the records it has put on inqueue, in order
  hist,            \* per unit: which commands have been applied to it,
                   \* and how many records it had emitted by then
  seen,            \* spectrum events combine_data has handled: key -> payload
  c_seen,          \* the same for combine_spectra
  last,            \* per unit: kind of the last message of the remote server
  nev,             \* number of events the environment has produced
  alive,           \* the combiner thread is still inside get_data
  callback,        \* RoachCombiner.callback
  invoked,         \* the subscribers invoked, one per invocation, in order
  handled,         \* per unit: its records get_data has taken, in order
  quit_called,     \* SAObackend.quit has been called
  query,           \* the thread executing get_current_scans / _accums
  reply,           \* the map the last such call returned
  busy,            \* the subscriber is executing a notification
  claimed,         \* the combiner thread owns the caller's proxy
  opening          \* get_spectrum_from_file: failed opens, exception raised

vars == << scan, spectrum_count, max_count, thread_suspend, pc, cycles,
           start_cb, ctl, cmds, inqueue, spectra_dict, timedata, composites,
           received, scans, combinerQueue, c_spectra_dict, c_out,
           sent, hist, seen, c_seen, last, nev,
           alive, callback, invoked, handled, quit_called, query, reply,
           busy, claimed, opening >>

unitVars == << scan, spectrum_count, max_count, thread_suspend, pc, cycles >>
ctlVars == << start_cb, ctl, cmds, hist >>
combVars == << spectra_dict, timedata, composites, seen >>
trackVars == << received, scans, combinerQueue >>
clientVars == << c_spectra_dict, c_out, c_seen >>
notifyVars == << alive, callback, invoked, handled >>
svcVars == << quit_called, query, reply >>
callVars == << busy, claimed, opening >>
auxVars == << notifyVars, svcVars, callVars >>

(* ----------------------- DataCombiner.combine_data -------------------- *)
\* a record is output as soon as it holds one contribution
IsCompleteAny(this_record) == DictLen(this_record) >= 1

\* a record is output when at most one contribution is missing
IsCompleteAlmost(this_record) == DictLen(this_record) >= Len(dsplist) - 1

\* the test that decides whether a record is output (combiner.py line 105)
IsComplete(this_record) == DictLen(this_record) = Len(dsplist)

\* a table that holds the current scan only
WithScanOnly(sd, d, s) == IF s \in DOMAIN sd THEN d ELSE (s :> EmptyDict)

\* spectra_dict / timedata after "create spectra_dict[scan], if needed";
\* both tables are switched on the keys of spectra_dict (sd)
WithScan(sd, d, s) ==
  IF s \in DOMAIN sd THEN d
  ELSE IF DOMAIN sd = {} THEN (s :> EmptyDict)
  ELSE DictPut(d, s, EmptyDict)

\* a record entry that is created anew for every spectrum
WithRecordFresh(sd, d, s, r) == DictPut(d, s, DictPut(d[s], r, EmptyDict))

\* after "create spectra_dict[scan][record], if needed"
WithRecord(sd, d, s, r) ==
  IF r \in DOMAIN sd[s] THEN d
  ELSE DictPut(d, s, DictPut(d[s], r, EmptyDict))

\* a store that keeps the first contribution of a unit
StoreFirstOnly(d, s, r, name, v) ==
  IF name \in DOMAIN d[s][r] THEN d
  ELSE DictPut(d, s, DictPut(d[s], r, DictPut(d[s][r], name, v)))

\* d[scan][record][name] = v
StoreContribution(d, s, r, name, v) ==
  DictPut(d, s, DictPut(d[s], r, DictPut(d[s][r], name, v)))

\* the message combine_data hands to process_data
CompositeMsg(s, r, this_time, this_record) ==
  [scan |-> s, record |-> r, time |-> this_time, type |-> "data",
   data |-> this_record]

\* every record is stored, whatever its type
IsSpectrumAny(result) == TRUE

\* line 71: if result["type"] == "spectrum"
IsSpectrum(result) == result.type = "spectrum"

\* combine_data(result) on tables sd, td: the new tables and the messages
\* handed to process_data
combine_data(result, sd, td) ==
  IF IsSpectrum(result) THEN
    LET s   == result.scan
        r   == result.record
        sd1 == WithScan(sd, sd, s)
        td1 == WithScan(sd, td, s)
        sd2 == WithRecord(sd1, sd1, s, r)
        td2 == WithRecord(sd1, td1, s, r)
        sd3 == StoreContribution(sd2, s, r, result.name, result.data)
        td3 == StoreContribution(td2, s, r, result.name, result.time)
        this_record == sd3[s][r]
    IN [sd |-> sd3, td |-> td3,
        out |-> IF IsComplete(this_record)
                THEN << CompositeMsg(s, r, td3[s][r], this_record) >>
                ELSE << >>]
  ELSE [sd |-> sd, td |-> td, out |-> << >>]

\* the spectrum events handled so far, with the payload of the latest
Seen(sn, result) ==
  IF result.type = "spectrum"
  THEN DictPut(sn, << result.scan, result.record, result.name >>, result.data)
  ELSE sn

(* ----------------------- SAOclient.start_handler ---------------------- *)
\* a "record" message that leaves the done flag as it is
RecordDoneKept(old) == old

\* line 389: self.scans[name]["done"] = False
RecordDone(old) == FALSE

\* start_handler(res): the new scans table and the records put on
\* combinerQueue; a KeyError leaves what was assigned before it
start_handler(res, sc) ==
  IF "name" \notin DOMAIN res \/ "scan" \notin DOMAIN res
    THEN [scans |-> sc, put |-> << >>]
  ELSE IF res.name \notin DOMAIN sc
    THEN [scans |-> sc, put |-> << >>]
  ELSE LET sc1 == [sc EXCEPT ![res.name].scan = res.scan]
       IN IF res.type = "done"
            THEN [scans |-> [sc1 EXCEPT ![res.name].done = TRUE,
                                        ![res.name].time = res.time],
                  put |-> << >>]
          ELSE IF res.type = "record"
            THEN IF "record" \notin DOMAIN res
                   THEN [scans |-> sc1, put |-> << >>]
                   ELSE [scans |-> [sc1 EXCEPT ![res.name].done =
                                                    RecordDone(@)],
                         put |-> << res >>]
          ELSE [scans |-> sc1, put |-> << >>]

\* the subscriber's handler is invoked with res
Deliver(res) ==
  LET h == start_handler(res, scans)
  IN /\ scans' = h.scans
     /\ combinerQueue' = combinerQueue \o h.put
     /\ received' = Append(received, res)

\* SAOclient.scan_finished
scan_finished == \A name \in DOMAIN scans : scans[name].done

(* --------------------- RoachCombiner.process_data --------------------- *)
\* a subscriber is invoked whether or not one is registered
HasSubscriberAlways(cb) == TRUE

\* line 146: if self.callback
HasSubscriber(cb) == cb # 0

\* the callback of an earlier call is kept once there is one
ReadCached(cb, cached) == IF cached # 0 THEN cached ELSE cb

\* line 144: self.callback = self.parent.start.cb
ReadCallback(cb, cached) == cb

\* the invocation of subscriber cb raises in the combiner thread: the
\* subscribers 1..MaxSubs return normally, any other one raises
SubscriberRaises(cb) == cb > MaxSubs

\* process_data(msg): with a subscriber of the last start(), the thread
\* claims the caller's proxy (line 150) and invokes the subscriber with the
\* message (line 153); without one the message is dropped
process_data(msg) ==
  LET cb == ReadCallback(start_cb, callback)
  IN /\ callback' = cb
     /\ IF HasSubscriber(cb)
        THEN /\ claimed' = TRUE
             /\ invoked' = Append(invoked, cb)
             /\ Deliver(msg)
             /\ alive' = ~SubscriberRaises(cb)
        ELSE UNCHANGED << trackVars, invoked, alive, claimed >>

\* combine_data(result) raises KeyError: a field it reads is missing
\* (lines 65-68, 71, 72)
combine_data_raises(result) ==
  \/ \E f \in {"name", "scan", "record", "time", "type"} :
        f \notin DOMAIN result
  \/ result.type = "spectrum" /\ "data" \notin DOMAIN result

\* a combine_data that has created the entry of the scan when it raises
TablesOnRaiseScan(result, d) ==
  IF "scan" \in DOMAIN result /\ result.scan \notin DOMAIN d
  THEN DictPut(d, result.scan, EmptyDict) ELSE d

\* a table after combine_data(result) has raised: the reads of lines 65-72
\* come before the first write (line 75 onwards)
TablesOnRaise(result, d) == d

\* a queue read from its newest end
QueueGetLast(q) == [item |-> q[Len(q)], rest |-> SubSeq(q, 1, Len(q) - 1)]

\* line 57: self.inqueue.get()
QueueGet(q) == [item |-> Head(q), rest |-> Tail(q)]

\* the records of the units that get_data has taken from inqueue
Handled(h, data) ==
  IF "name" \in DOMAIN data /\ data.name \in Units
  THEN [h EXCEPT ![data.name] = Append(@, data)]
  ELSE h

\* one turn of the loop of DataCombiner.get_data: inqueue.get() and
\* combine_data, which calls process_data for a complete record; the thread
\* is in the turn until the call of the subscriber has returned, and an
\* exception ends get_data
get_data ==
  /\ alive
  /\ ~busy
  /\ inqueue # << >>
  /\ LET data == QueueGet(inqueue).item
     IN /\ inqueue' = QueueGet(inqueue).rest
        /\ handled' = Handled(handled, data)
        /\ IF combine_data_raises(data)
           THEN /\ alive' = FALSE
                /\ spectra_dict' = TablesOnRaise(data, spectra_dict)
                /\ timedata' = TablesOnRaise(data, timedata)
                /\ UNCHANGED << composites, seen, trackVars, callback,
                                invoked, claimed >>
           ELSE LET res == combine_data(data, spectra_dict, timedata)
                IN /\ spectra_dict' = res.sd
                   /\ timedata' = res.td
                   /\ composites' = composites \o res.out
                   /\ seen' = Seen(seen, data)
                   /\ IF res.out # << >>
                      THEN process_data(res.out[1])
                      ELSE UNCHANGED << trackVars, callback, invoked, alive,
                                        claimed >>
  /\ UNCHANGED << unitVars, ctlVars, clientVars, sent, last, nev, svcVars,
                  opening >>

\* a turn of get_data together with the execution of the subscriber it
\* calls: the call has returned when the step ends
CombinerStep == get_data /\ busy' = FALSE

\* a turn of get_data up to the call of line 153: the subscriber, if one is
\* called, is executing when the step ends
CombinerCall == get_data /\ busy' = (Len(invoked') > Len(invoked))

\* the subscriber finishes the notification and self.callback(msg) returns
\* to the combiner thread
SubscriberReturn ==
  /\ busy
  /\ busy' = FALSE
  /\ UNCHANGED << unitVars, ctlVars, inqueue, combVars, trackVars, clientVars,
                  sent, last, nev, notifyVars, svcVars, claimed, opening >>

(* --------------------------- SAOfwif.action --------------------------- *)
\* the "new scan" message of action()
NewScanMsg(u, t, s) ==
  [type |-> "new scan", name |-> u, time |-> t, scan |-> s, record |-> 0,
   data |-> None]

\* the "spectrum" message of action()
SpectrumMsg(u, t, s, r, d) ==
  [type |-> "spectrum", name |-> u, time |-> t, scan |-> s, record |-> r,
   data |-> d]

\* a unit is Suspended: its thread waits in the run loop for a resume
Suspended(u) == thread_suspend[u] /\ pc[u] = "idle"

\* a run loop that does not wait while the thread is suspended
MayRunAlways(u) == TRUE

\* the run loop of the unit thread calls action() unless thread_suspend
MayRun(u) == ~thread_suspend[u]

\* line 769: spectrum_count += 1
NextCount(c) == c + 1

\* a test that ends the scan one record early
ExceedsEarly(c, m) == c >= m

\* line 774: spectrum_count > max_count
Exceeds(c, m) == c > m

\* the run loop's suspend test, then line 769
UnitIncrement(u) ==
  /\ UNCHANGED auxVars
  /\ pc[u] = "idle"
  /\ MayRun(u)
  /\ spectrum_count' = [spectrum_count EXCEPT ![u] = NextCount(@)]
  /\ cycles' = [cycles EXCEPT ![u] = @ + 1]
  /\ pc' = [pc EXCEPT ![u] = "counted"]
  /\ UNCHANGED << scan, max_count, thread_suspend, ctlVars, inqueue,
                  combVars, trackVars, clientVars, sent, last, nev >>

\* a unit thread that stores its record in the combiner's tables itself
PutDirect(msg, q, sd, td) ==
  [inqueue |-> q,
   sd |-> combine_data(msg, sd, td).sd, td |-> combine_data(msg, sd, td).td]

\* lines 790 and 803: self.parent.combiner.inqueue.put(msg) is all a unit
\* thread does with its record
Put(msg, q, sd, td) == [inqueue |-> Append(q, msg), sd |-> sd, td |-> td]

\* a boundary message that carries the number of the scan that has ended
BoundaryScanOld(old, new) == old

\* lines 779-785: self.scan += 1 comes before the message is built, so its
\* "scan" is the number of the scan that begins
BoundaryScan(old, new) == new

\* a scan number that stays as it is when a scan ends
NextScanSame(s) == s

\* line 779: self.scan += 1
NextScan(s) == s + 1

\* lines 774-790: the counter exceeds max_count
UnitNewScan(u) ==
  /\ UNCHANGED auxVars
  /\ pc[u] = "counted"
  /\ Exceeds(spectrum_count[u], max_count[u])
  /\ thread_suspend' = [thread_suspend EXCEPT ![u] = TRUE]
  /\ scan' = [scan EXCEPT ![u] = NextScan(@)]
  /\ spectrum_count' = [spectrum_count EXCEPT ![u] = 0]
  /\ LET msg == NewScanMsg(u, cycles[u], BoundaryScan(scan[u], scan'[u]))
         p   == Put(msg, inqueue, spectra_dict, timedata)
     IN /\ inqueue' = p.inqueue
        /\ spectra_dict' = p.sd
        /\ timedata' = p.td
        /\ sent' = [sent EXCEPT ![u] = Append(@, msg)]
  /\ pc' = [pc EXCEPT ![u] = "idle"]
  /\ UNCHANGED << max_count, cycles, ctlVars, composites, seen, trackVars,
                  clientVars, last, nev >>

\* lines 791-794: the counter does not exceed max_count; the thread enters
\* the blocking get_next_spectrum()
UnitFetch(u) ==
  /\ UNCHANGED auxVars
  /\ pc[u] = "counted"
  /\ ~Exceeds(spectrum_count[u], max_count[u])
  /\ pc' = [pc EXCEPT ![u] = "fetch"]
  /\ UNCHANGED << scan, spectrum_count, max_count, thread_suspend, cycles,
                  ctlVars, inqueue, combVars, trackVars, clientVars, sent,
                  last, nev >>

\* get_next_spectrum(): every fetch returns a new spectrum, here the number
\* of the fetch tagged with the unit
get_next_spectrum(u) == cycles[u] * (NUnits + 1) + u

\* a record numbered one past the counter
RecordIndexNext(c) == c + 1

\* line 801: "record": self.spectrum_count
RecordIndex(c) == c

\* lines 794-805: get_next_spectrum() returns; the message is built from
\* the unit's scan and counter as they are now
UnitPut(u) ==
  /\ UNCHANGED auxVars
  /\ pc[u] = "fetch"
  /\ LET msg == SpectrumMsg(u, cycles[u], scan[u],
                            RecordIndex(spectrum_count[u]),
                            get_next_spectrum(u))
         p   == Put(msg, inqueue, spectra_dict, timedata)
     IN /\ inqueue' = p.inqueue
        /\ spectra_dict' = p.sd
        /\ timedata' = p.td
        /\ sent' = [sent EXCEPT ![u] = Append(@, msg)]
  /\ pc' = [pc EXCEPT ![u] = "idle"]
  /\ UNCHANGED << scan, spectrum_count, max_count, thread_suspend, cycles,
                  ctlVars, composites, seen, trackVars, clientVars, last,
                  nev >>

\* a failed fetch after which the thread goes on as if nothing had happened
AfterFetchSwallowed(u) == "idle"

\* where the unit thread is after get_next_spectrum() raised: action() has
\* no handler, the exception leaves it
AfterFetchFailure(u) == "failed"

\* line 794: get_next_spectrum() raises
UnitFetchFails(u) ==
  /\ pc[u] = "fetch"
  /\ pc' = [pc EXCEPT ![u] = AfterFetchFailure(u)]
  /\ UNCHANGED << scan, spectrum_count, max_count, thread_suspend, cycles,
                  ctlVars, inqueue, combVars, trackVars, clientVars, sent,
                  last, nev, auxVars >>

(* ------------------------ SAObackend control -------------------------- *)
\* the call start(n_accums=n, cb=cb) arrives: the decorator records the
\* subscriber and the body starts its loop over the units
StartCallWithin(n, cb, most) ==
  /\ UNCHANGED auxVars
  /\ cmds < most
  /\ ctl.todo = << >>
  /\ start_cb' = cb
  /\ ctl' = [todo |-> dsplist, n |-> n]
  /\ cmds' = cmds + 1
  /\ UNCHANGED << unitVars, inqueue, combVars, trackVars, clientVars,
                  sent, hist, last, nev >>

\* start() as one of at most MaxCmds control commands
StartCall(n, cb) == StartCallWithin(n, cb, MaxCmds)

\* one turn of the loop of start() (lines 326-332)
StartUnit ==
  /\ UNCHANGED auxVars
  /\ ctl.todo # << >>
  /\ LET u == Head(ctl.todo)
         rest == Tail(ctl.todo)
     IN /\ scan' = [scan EXCEPT ![u] = IF @ = 0 THEN 1 ELSE @]
        /\ max_count' = [max_count EXCEPT ![u] = ctl.n]
        /\ spectrum_count' = [spectrum_count EXCEPT ![u] = 0]
        /\ thread_suspend' = [thread_suspend EXCEPT ![u] = FALSE]
        /\ ctl' = [todo |-> rest, n |-> IF rest = << >> THEN 0 ELSE ctl.n]
        /\ hist' = [hist EXCEPT ![u] = [started |-> TRUE,
                                        resumed |-> TRUE,
                                        clean   |-> Suspended(u),
                                        base    |-> Len(sent[u]),
                                        midscan |-> @.midscan \/ ~Suspended(u),
                                        mark    |-> @.mark]]
  /\ UNCHANGED << pc, cycles, start_cb, cmds, inqueue, combVars, trackVars,
                  clientVars, sent, last, nev >>

\* SAObackend.sync_start(roachname) -> SAOfwif.sync_start
SyncStartWithin(u, most) ==
  /\ UNCHANGED auxVars
  /\ cmds < most
  /\ thread_suspend' = [thread_suspend EXCEPT ![u] = FALSE]
  /\ cmds' = cmds + 1
  /\ hist' = [hist EXCEPT ![u].resumed = TRUE, ![u].clean = FALSE]
  /\ UNCHANGED << scan, spectrum_count, max_count, pc, cycles, start_cb, ctl,
                  inqueue, combVars, trackVars, clientVars, sent, last, nev >>

\* sync_start() as one of at most MaxCmds control commands
SyncStart(u) == SyncStartWithin(u, MaxCmds)

\* SAObackend.reset_scans
ResetScansWithin(most) ==
  /\ UNCHANGED auxVars
  /\ cmds < most
  /\ scan' = [u \in Units |-> 0]
  /\ cmds' = cmds + 1
  /\ hist' = [u \in Units |-> [hist[u] EXCEPT !.clean = FALSE,
                                              !.mark = Len(sent[u])]]
  /\ UNCHANGED << spectrum_count, max_count, thread_suspend, pc, cycles,
                  start_cb, ctl, inqueue, combVars, trackVars, clientVars,
                  sent, last, nev >>

\* reset_scans() as one of at most MaxCmds control commands
ResetScans == ResetScansWithin(MaxCmds)

\* SAObackend.quit -> SAOfwif.quit for every unit: a log line
Quit ==
  /\ ~quit_called
  /\ quit_called' = TRUE
  /\ UNCHANGED << unitVars, ctlVars, inqueue, combVars, trackVars, clientVars,
                  sent, last, nev, notifyVars, query, reply, callVars >>

\* a map entry that reports the accumulations asked for
ReadMaxCount(kind, name) ==
  IF kind = "scans" THEN scan[name] ELSE max_count[name]

\* lines 299 and 305: the attribute of the unit a call reads
ReadUnit(kind, name) ==
  IF kind = "scans" THEN scan[name] ELSE spectrum_count[name]

\* get_current_scans() or get_current_accums() is called
GetCall(kind) ==
  /\ query.todo = << >>
  /\ query.n < MaxQueries
  /\ query' = [kind |-> kind, todo |-> dsplist, acc |-> EmptyDict,
               n |-> query.n + 1]
  /\ UNCHANGED << unitVars, ctlVars, inqueue, combVars, trackVars, clientVars,
                  sent, last, nev, notifyVars, quit_called, reply, callVars >>

\* one turn of the loop of get_current_scans / get_current_accums; after
\* the last turn the map is returned
GetUnit ==
  /\ query.todo # << >>
  /\ LET name == Head(query.todo)
         rest == Tail(query.todo)
         acc  == DictPut(query.acc, name, ReadUnit(query.kind, name))
     IN /\ query' = [query EXCEPT !.todo = rest, !.acc = acc]
        /\ reply' = IF rest = << >> THEN acc ELSE reply
  /\ UNCHANGED << unitVars, ctlVars, inqueue, combVars, trackVars, clientVars,
                  sent, last, nev, notifyVars, quit_called, callVars >>

(* ---------------------- SAOclient.combine_spectra --------------------- *)
\* what the loop of get_spectrum_from_file does after a failed open: an
\* IOError of errno 11 is waited out (lines 410-413) and any other IOError
\* is passed over (414-415), both with busy still True; another exception
\* is raised anew (416-419)
AfterOpenFailure(kind) ==
  IF kind \in {"locked", "ioerror"} THEN "retry" ELSE "raise"

\* one failed h5py.File() of get_spectrum_from_file for the record at the
\* head of combinerQueue, which combine_spectra has taken (lines 438-444);
\* tries counts the failures up to MaxTries
OpenFails(kind) ==
  /\ combinerQueue # << >>
  /\ ~opening.raised
  /\ LET res == Head(combinerQueue)
     IN scans' = [scans EXCEPT ![res.name].record = res.record,
                               ![res.name].time = nev]
  /\ opening' = [tries |-> IF opening.tries < MaxTries
                           THEN opening.tries + 1 ELSE MaxTries,
                 raised |-> AfterOpenFailure(kind) = "raise"]
  /\ UNCHANGED << unitVars, ctlVars, inqueue, combVars, received,
                  combinerQueue, clientVars, sent, last, nev, notifyVars,
                  svcVars, busy, claimed >>

\* get_spectrum_from_file(scan, res): res with the data read from its file
get_spectrum_from_file(res) ==
  [x \in (DOMAIN res) \cup {"data"} |-> IF x = "data" THEN res.file ELSE res[x]]

\* the test that decides whether a record is output (SAOclient.py line 474)
AllRoaches(this_record) == DictLen(this_record) = Len(dsplist)

\* lines 488-491: spectrum.reshape(npts, 1) accepts the column
Fits(column_data) == Len(column_data) = NChan

\* the message combine_spectra hands to parent.start_spec_cb_handler: the
\* columns of the units in the order of roachnames; a column that raises
\* ValueError (lines 484-496) is logged and left out
SpectraMsg(s, r, this_record) ==
  [type |-> "data", scan |-> s, record |-> r, titles |-> dsplist,
   data |-> SelectSeq([i \in DOMAIN dsplist |-> this_record[dsplist[i]]],
                      Fits)]

\* lines 445-511 of combine_spectra on table sd: the new table and the
\* messages handed to the parent's handler
combine_spectra(result, sd) ==
  LET s   == result.scan
      r   == result.record
      sd1 == WithScan(sd, sd, s)
      sd2 == WithRecord(sd1, sd1, s, r)
      sd3 == StoreContribution(sd2, s, r, result.name, result.data)
  IN [sd |-> sd3,
      out |-> IF AllRoaches(sd3[s][r])
              THEN << SpectraMsg(s, r, sd3[s][r]) >>
              ELSE << >>]

\* one turn of the client's combiner thread: combinerQueue.get() and the
\* rest of combine_spectra
CombineSpectra ==
  /\ UNCHANGED << notifyVars, svcVars, busy, claimed >>
  /\ ~opening.raised
  /\ opening' = [tries |-> 0, raised |-> FALSE]
  /\ combinerQueue # << >>
  /\ LET res == Head(combinerQueue)
         result == get_spectrum_from_file(res)
         c == combine_spectra(result, c_spectra_dict)
     IN /\ scans' = [scans EXCEPT ![res.name].record = res.record,
                                  ![res.name].time = nev]
        /\ c_spectra_dict' = c.sd
        /\ c_out' = c_out \o c.out
        /\ c_seen' = DictPut(c_seen, << res.scan, res.record, res.name >>,
                             result.data)
  /\ combinerQueue' = Tail(combinerQueue)
  /\ UNCHANGED << unitVars, ctlVars, inqueue, combVars, received, last,
                  sent, nev >>

(* ----------------------------- environment ---------------------------- *)
\* a unit puts a record on inqueue: any record a unit thread can build
UnitRecord(u, kind, s, r) ==
  /\ UNCHANGED auxVars
  /\ nev < MaxEvents
  /\ LET msg == IF kind = "spectrum"
                THEN SpectrumMsg(u, nev + 1, s, r, nev + 1)
                ELSE NewScanMsg(u, nev + 1, s)
     IN /\ inqueue' = Append(inqueue, msg)
        /\ sent' = [sent EXCEPT ![u] = Append(@, msg)]
  /\ nev' = nev + 1
  /\ UNCHANGED << unitVars, ctlVars, combVars, trackVars, clientVars,
                  last >>

\* the fields combine_data reads from a spectrum record
Fields == {"name", "scan", "record", "time", "type", "data"}

\* a spectrum record with the field f missing or, for f = "kind", with a
\* type that no unit sends
BadMsg(u, f, t) ==
  LET msg == SpectrumMsg(u, t, 1, 1, t)
  IN IF f = "kind" THEN [msg EXCEPT !.type = "bogus"]
     ELSE [x \in (DOMAIN msg) \ {f} |-> msg[x]]

\* a malformed record is put on inqueue
BadRecord(u, f) ==
  /\ nev < MaxEvents
  /\ inqueue' = Append(inqueue, BadMsg(u, f, nev + 1))
  /\ sent' = [sent EXCEPT ![u] = Append(@, BadMsg(u, f, nev + 1))]
  /\ nev' = nev + 1
  /\ UNCHANGED << unitVars, ctlVars, combVars, trackVars, clientVars,
                  last, auxVars >>

\* the spectrum of n channels that the data file of a message holds
FileData(t, n) == [i \in 1..n |-> t]

\* the message of the remote server about one record or one finished scan;
\* "file" stands for the content of the file the message names
RemoteMsg(kind, name, s, r, t, n) ==
  [type |-> kind, name |-> name, scan |-> s,
   record |-> IF kind = "done" THEN None ELSE r, time |-> t,
   file |-> FileData(t, n)]

\* the remote server invokes the client's start_handler with a message
\* whose file holds n channels
RemoteSends(kind, name, s, r, n) ==
  /\ UNCHANGED auxVars
  /\ nev < MaxEvents
  /\ Deliver(RemoteMsg(kind, name, s, r, nev + 1, n))
  /\ last' = [last EXCEPT ![name] = kind]
  /\ nev' = nev + 1
  /\ UNCHANGED << unitVars, ctlVars, inqueue, combVars, clientVars, sent >>

\* a message whose file holds a spectrum of the client's number of channels
RemoteEvent(kind, name, s, r) == RemoteSends(kind, name, s, r, NChan)

\* a "record" message whose file holds a spectrum of another length
RemoteMismatch(name, s, r) == RemoteSends("record", name, s, r, NChan + 1)

(* ------------------------------ system -------------------------------- *)
Init ==
  /\ scan = [u \in Units |-> 0]
  /\ spectrum_count = [u \in Units |-> 0]
  /\ max_count = [u \in Units |-> InitMaxCount]
  /\ thread_suspend = [u \in Units |-> TRUE]
  /\ pc = [u \in Units |-> "idle"]
  /\ cycles = [u \in Units |-> 0]
  /\ start_cb = 0
  /\ ctl = [todo |-> << >>, n |-> 0]
  /\ cmds = 0
  /\ inqueue = << >>
  /\ spectra_dict = EmptyDict
  /\ timedata = EmptyDict
  /\ composites = << >>
  /\ received = << >>
  /\ scans = [u \in Units |->
                [done |-> FALSE, scan |-> None, record |-> None,
                 time |-> None]]
  /\ combinerQueue = << >>
  /\ c_spectra_dict = EmptyDict
  /\ c_out = << >>
  /\ sent = [u \in Units |-> << >>]
  /\ hist = [u \in Units |-> [started |-> FALSE, resumed |-> FALSE,
                              clean |-> FALSE, base |-> 0,
                              midscan |-> FALSE, mark |-> 0]]
  /\ seen = EmptyDict
  /\ c_seen = EmptyDict
  /\ last = [u \in Units |-> "none"]
  /\ nev = 0
  /\ alive = TRUE
  /\ callback = 0
  /\ invoked = << >>
  /\ handled = [u \in Units |-> << >>]
  /\ quit_called = FALSE
  /\ query = [kind |-> "none", todo |-> << >>, acc |-> EmptyDict, n |-> 0]
  /\ reply = EmptyDict
  /\ busy = FALSE
  /\ claimed = FALSE
  /\ opening = [tries |-> 0, raised |-> FALSE]

\* the unit threads
UnitThreads ==
  \/ \E u \in Units : UnitIncrement(u)
  \/ \E u \in Units : UnitNewScan(u)
  \/ \E u \in Units : UnitFetch(u)
  \/ \E u \in Units : UnitPut(u)

\* the unit threads and the combiner thread
Threads == UnitThreads \/ CombinerStep

\* the back end under its control commands
Next ==
  \/ \E n \in 1..MaxCount, cb \in 0..MaxSubs : StartCall(n, cb)
  \/ StartUnit
  \/ \E u \in Units : SyncStart(u)
  \/ ResetScans
  \/ Threads

Spec == Init /\ [][Next]_vars

\* the run of roach_client.py: one start(n_accums=3) with a subscriber
TestStart == cmds = 0 /\ StartCall(TestAccums, 1)

NextTest == TestStart \/ StartUnit \/ Threads

SpecTest == Init /\ [][NextTest]_vars

\* the two combiners under any records of the units and any messages of the
\* remote server
NextIO ==
  \/ \E u \in Units, s \in 1..MaxKey, r \in 1..MaxKey :
        UnitRecord(u, "spectrum", s, r)
  \/ \E u \in Units, s \in 1..MaxKey : UnitRecord(u, "new scan", s, 0)
  \/ \E u \in Units, s \in 1..MaxKey, r \in 1..MaxKey :
        RemoteEvent("record", u, s, r)
  \/ \E u \in Units, s \in 1..MaxKey : RemoteEvent("done", u, s, 0)
  \/ CombinerStep
  \/ CombineSpectra

SpecIO == Init /\ [][NextIO]_vars

\* the server's combiner and notifier under records of the units for the
\* first record of every scan, malformed records, and any subscribers of
\* start()
NextErr ==
  \/ \E cb \in 0..(MaxSubs + 1) : StartCall(1, cb)
  \/ StartUnit
  \/ \E u \in Units, s \in 1..MaxKey : UnitRecord(u, "spectrum", s, 1)
  \/ \E u \in Units : UnitRecord(u, "new scan", 1, 0)
  \/ \E f \in Fields \cup {"kind"} : BadRecord(dsplist[1], f)
  \/ CombinerStep

SpecErr == Init /\ [][NextErr]_vars

\* the only start() of a run, with a subscriber
OneStart(n) == cmds = 0 /\ StartCall(n, 1)

\* one scan of the units with failing fetches, quit() and the two status
\* calls
NextFault ==
  \/ \E n \in 1..MaxCount : OneStart(n)
  \/ StartUnit
  \/ Threads
  \/ \E u \in Units : UnitFetchFails(u)
  \/ Quit
  \/ \E kind \in {"scans", "accums"} : GetCall(kind)
  \/ GetUnit

SpecFault == Init /\ [][NextFault]_vars

\* one scan of the units with the call of the subscriber and its return as
\* two steps
NextCall ==
  \/ \E n \in 1..MaxCount : OneStart(n)
  \/ StartUnit
  \/ UnitThreads
  \/ CombinerCall
  \/ SubscriberReturn

SpecCall == Init /\ [][NextCall]_vars

\* the client's combiner under "record" messages for the first record of
\* every scan, files of any length and opens that fail
NextStore ==
  \/ \E u \in Units, s \in 1..MaxKey : RemoteEvent("record", u, s, 1)
  \/ \E u \in Units, s \in 1..MaxKey : RemoteMismatch(u, s, 1)
  \/ \E kind \in {"locked", "ioerror", "other"} : OpenFails(kind)
  \/ CombineSpectra

SpecStore == Init /\ [][NextStore]_vars

\* a start() that is issued while every unit is Suspended
OrderlyStart(n) ==
  (\A u \in Units : Suspended(u)) /\ StartCallWithin(n, 1, MaxOrderly)

\* scans that are started only while every unit is Suspended, with
\* sync_start() calls and without reset_scans()
NextOrderly ==
  \/ \E n \in 1..MaxCount : OrderlyStart(n)
  \/ StartUnit
  \/ \E u \in Units : SyncStartWithin(u, MaxOrderly)
  \/ Threads

SpecOrderly == Init /\ [][NextOrderly]_vars

\* scans that are started only while every unit is Suspended, with
\* reset_scans() calls between them
NextReset ==
  \/ \E n \in 1..MaxCount : OrderlyStart(n)
  \/ StartUnit
  \/ ResetScansWithin(MaxOrderly)
  \/ Threads

SpecReset == Init /\ [][NextReset]_vars

\* one of at most MaxCmds calls of start(), each issued while every unit is
\* Suspended
LockStart(n) == (\A u \in Units : Suspended(u)) /\ StartCall(n, 1)

\* scans that are started only while every unit is Suspended, without
\* sync_start() and reset_scans(), and the two status calls
NextLock ==
  \/ \E n \in 1..MaxCount : LockStart(n)
  \/ StartUnit
  \/ Threads
  \/ \E kind \in {"scans", "accums"} : GetCall(kind)
  \/ GetUnit

SpecLock == Init /\ [][NextLock]_vars

(* ------------------------------ properties ---------------------------- *)
\* the unit u puts a record on inqueue in this step
Emits(u) == Len(sent'[u]) > Len(sent[u])

\* the record the unit u put on inqueue last
LastSent(u) == sent[u][Len(sent[u])]

\* the composites handed to process_data for scan s
CompositesOf(s) ==
  LET OfScan(m) == m.scan = s IN SelectSeq(composites, OfScan)

\* the spectrum records the unit u has emitted for scan s
SpectraOf(u, s) ==
  LET OfScan(m) == m.type = "spectrum" /\ m.scan = s
  IN SelectSeq(sent[u], OfScan)

\* the scan numbers the units have emitted
AllScans ==
  UNION {{sent[u][i].scan : i \in DOMAIN sent[u]} : u \in Units}

\* the unit u has emitted exactly the records 1..R for scan s, in order, and
\* a "new scan" record after them
EmittedScan(u, s, R) ==
  /\ Len(SpectraOf(u, s)) = R
  /\ \A i \in 1..R : SpectraOf(u, s)[i].record = i
  /\ \E j \in DOMAIN sent[u] :
        /\ sent[u][j].type = "new scan"
        /\ \A i \in DOMAIN sent[u] :
              (sent[u][i].type = "spectrum" /\ sent[u][i].scan = s) => i < j

\* the units whose spectrum for the key (s, r) combine_data has handled
Contributors(sn, s, r) == {u \in Units : << s, r, u >> \in DOMAIN sn}

\* C1: for every key (scan, record) at most one composite is handed to
\* process_data, whatever events the combiner handles
C1_AtMostOnce ==
  \A i, j \in DOMAIN composites :
     (composites[i].scan = composites[j].scan
        /\ composites[i].record = composites[j].record) => i = j

\* C2: when every unit has emitted exactly the records 1..R of a scan and
\* then a scan boundary, and the combiner has handled all of them, the
\* combiner has produced exactly R composites for the scan, one per record
\* 1..R, each with one contribution per unit
C2_ExactlyR ==
  \A s \in AllScans, R \in 1..Len(sent[dsplist[1]]) :
     (inqueue = << >> /\ \A u \in Units : EmittedScan(u, s, R))
     => LET cs == CompositesOf(s)
        IN /\ Len(cs) = R
           /\ {cs[i].record : i \in DOMAIN cs} = 1..R
           /\ \A i \in DOMAIN cs : DictLen(cs[i].data) = NUnits

C2_Witness ==
  /\ inqueue = << >>
  /\ \E s \in AllScans :
        /\ \A u \in Units : EmittedScan(u, s, MaxCount)
        /\ Len(CompositesOf(s)) = MaxCount

\* C3: a key for which fewer than all configured units have contributed has
\* no composite, in the server's combine_data and in the client's
\* combine_spectra alike
C3_NoPartial ==
  /\ \A i \in DOMAIN composites :
        Contributors(seen, composites[i].scan, composites[i].record) = Units
  /\ \A i \in DOMAIN c_out :
        Contributors(c_seen, c_out[i].scan, c_out[i].record) = Units

C3_Witness ==
  /\ \E k \in DOMAIN seen :
        /\ Contributors(seen, k[1], k[2]) # Units
        /\ \A i \in DOMAIN composites :
              << composites[i].scan, composites[i].record >> # << k[1], k[2] >>
  /\ \E k \in DOMAIN c_seen :
        /\ Contributors(c_seen, k[1], k[2]) # Units
        /\ \A i \in DOMAIN c_out :
              << c_out[i].scan, c_out[i].record >> # << k[1], k[2] >>

\* C4: the contribution map of every composite has exactly the configured
\* units as its keys
C4_UnitSet ==
  \A i \in DOMAIN composites : DOMAIN composites[i].data = Units

C4_Witness ==
  /\ Len(composites) >= 1
  /\ \E u \in Units : Len(sent[u]) >= 2

\* one step of the thread of unit u
UnitStep(u) ==
  UnitIncrement(u) \/ UnitNewScan(u) \/ UnitFetch(u) \/ UnitPut(u)

\* the number of records unit u has emitted since start() was applied to it
SinceStart(u) == Len(sent[u]) - hist[u].base

\* C5: after start(max_count) is applied to a Suspended unit and while no
\* further command reaches the unit, what the unit has emitted since is a
\* prefix of: the spectra 1..max_count in order, then one scan boundary; the
\* unit is Suspended again exactly when all of it is emitted, and until then
\* its thread always has a step to take
C5_ScanRun ==
  \A u \in Units :
     hist[u].clean =>
       /\ SinceStart(u) <= max_count[u] + 1
       /\ \A i \in 1..SinceStart(u) :
             LET m == sent[u][hist[u].base + i]
             IN IF i <= max_count[u]
                THEN m.type = "spectrum" /\ m.record = i
                ELSE m.type = "new scan"
       /\ Suspended(u) <=> SinceStart(u) = max_count[u] + 1
       /\ ~Suspended(u) => ENABLED UnitStep(u)

C5_Witness ==
  \E u \in Units :
     /\ hist[u].clean
     /\ max_count[u] = MaxCount
     /\ SinceStart(u) = MaxCount + 1
     /\ Suspended(u)

\* the step emits a spectrum of unit u that follows a spectrum of the same
\* scan without a boundary between them
FollowsSpectrum(u) ==
  /\ Emits(u)
  /\ Len(sent[u]) >= 1
  /\ LastSent(u).type = "spectrum"
  /\ sent'[u][Len(sent'[u])].type = "spectrum"
  /\ sent'[u][Len(sent'[u])].scan = LastSent(u).scan

\* the step resets the counter of unit u from a non-zero value to 0
ResetsCounter(u) == spectrum_count[u] # 0 /\ spectrum_count'[u] = 0

\* the step emits a scan boundary of unit u
EmitsBoundary(u) ==
  Emits(u) /\ sent'[u][Len(sent'[u])].type = "new scan"

\* what C6 states about one step of unit u
C6_Step(u) ==
  /\ FollowsSpectrum(u) =>
        sent'[u][Len(sent'[u])].record > LastSent(u).record
  /\ ResetsCounter(u) => EmitsBoundary(u)

\* C6: under any interleaving with start() and sync_start() the record index
\* of successive spectra of one scan strictly increases and the counter is
\* reset to 0 only when the unit emits a scan boundary
C6_Monotone == [][\A u \in Units : C6_Step(u)]_vars

TableAgrees ==
  /\ \A k \in DOMAIN seen :
        /\ k[1] \in DOMAIN spectra_dict
        /\ k[2] \in DOMAIN spectra_dict[k[1]]
  /\ \A s \in DOMAIN spectra_dict : \A r \in DOMAIN spectra_dict[s] :
        /\ DOMAIN spectra_dict[s][r] = Contributors(seen, s, r)
        /\ \A u \in DOMAIN spectra_dict[s][r] :
              spectra_dict[s][r][u] = seen[<< s, r, u >>]

\* C8: a later spectrum of a unit for a key replaces the unit's earlier
\* payload without changing the number of contributions of the key, and a
\* composite carries, for every unit, the latest payload handled for its key
C8_Overwrite ==
  [][/\ TableAgrees'
     /\ composites' # composites =>
          LET c == composites'[Len(composites')]
          IN \A u \in Units : c.data[u] = seen'[<< c.scan, c.record, u >>]
    ]_vars

C8_Witness ==
  /\ inqueue = << >>
  /\ Len(composites) = 1
  /\ \E u \in Units : \E i, j \in DOMAIN sent[u] :
        /\ i < j
        /\ sent[u][i].type = "spectrum" /\ sent[u][j].type = "spectrum"
        /\ sent[u][i].scan = sent[u][j].scan
        /\ sent[u][i].record = sent[u][j].record
        /\ sent[u][i].data # sent[u][j].data
        /\ composites[1].scan = sent[u][j].scan
        /\ composites[1].record = sent[u][j].record
        /\ composites[1].data[u] = sent[u][j].data

\* C9: the done flag of a unit is true exactly when the last message about
\* the unit was a "done" message (false initially, false again after a
\* "record" message), and scan_finished is true exactly when that holds for
\* every unit
C9_DoneFlags ==
  /\ \A u \in Units : scans[u].done <=> last[u] = "done"
  /\ scan_finished <=> \A u \in Units : last[u] = "done"

C9_Witness ==
  /\ Len(received) = 3
  /\ received[1].type = "done"
  /\ received[2].type = "done"
  /\ received[1].name # received[2].name
  /\ received[3].type = "record"
  /\ ~scans[received[3].name].done
  /\ ~scan_finished

\* every unit has emitted its spectra and its scan boundary and every queue
\* is drained
TestRunOver ==
  /\ \A u \in Units : Len(sent[u]) = TestAccums + 1 /\ Suspended(u)
  /\ inqueue = << >>
  /\ combinerQueue = << >>

\* C10: with 2 units, max_count = 3 and a registered subscriber, once both
\* units have emitted their 3 spectra and their scan boundary the subscriber
\* has received exactly 3 composites with 2 contributions each, and the scan
\* tracker has done = true for both units
C10_EndToEnd ==
  TestRunOver =>
    /\ Len(received) = TestAccums
    /\ \A i \in DOMAIN received : DictLen(received[i].data) = NUnits
    /\ scan_finished

\* the elements of a sequence
Range(q) == {q[i] : i \in DOMAIN q}

\* the composites handed to process_data in this step
NewComposites == SubSeq(composites', Len(composites) + 1, Len(composites'))

C12_Pending ==
  /\ \A k \in DOMAIN seen :
        Contributors(seen, k[1], k[2]) # Units =>
          /\ k[1] \in DOMAIN spectra_dict
          /\ k[2] \in DOMAIN spectra_dict[k[1]]
          /\ DOMAIN spectra_dict[k[1]][k[2]] = Contributors(seen, k[1], k[2])
          /\ \A i \in DOMAIN composites :
                << composites[i].scan, composites[i].record >>
                   # << k[1], k[2] >>
  /\ alive
  /\ inqueue # << >> => ENABLED CombinerStep

C12_Witness ==
  /\ inqueue = << >>
  /\ Len(composites) >= 1
  /\ \E k \in DOMAIN seen :
        /\ Contributors(seen, k[1], k[2]) # Units
        /\ k[2] = 1
        /\ composites[1].scan # k[1]

\* C13: after quit() has been called no unit begins a further cycle of its
\* acquisition loop or puts a record of a further cycle on inqueue, and
\* quit() leaves the combiner's tables unchanged
C13_QuitStops ==
  [][/\ quit_called => \A u \in Units : cycles'[u] = cycles[u]
     /\ quit_called' # quit_called =>
          (spectra_dict' = spectra_dict /\ timedata' = timedata)
    ]_vars

\* the records of unit u that wait on inqueue
Waiting(u) ==
  LET OfUnit(m) == m.name = u IN SelectSeq(inqueue, OfUnit)

\* C14: for every unit, the records the combiner has taken followed by the
\* unit's records still on the queue are the records the unit has emitted,
\* in the order it emitted them
C14_UnitOrder ==
  \A u \in Units : handled[u] \o Waiting(u) = sent[u]

C14_Witness ==
  /\ \A u \in Units : Len(handled[u]) >= 2
  /\ \E u \in Units :
        /\ Len(handled[u]) >= 3
        /\ handled[u][3].type = "new scan"
        /\ Len(Waiting(u)) >= 1

\* C15: a failure while one record is handled does not end the combiner's
\* consumer loop: the combiner thread is inside get_data in every state and
\* takes the records that wait on inqueue
C15_KeepsConsuming ==
  /\ alive
  /\ inqueue # << >> => ENABLED CombinerStep

\* a record that lacks a field combine_data reads, or whose type is none of
\* the two the units send
Malformed(m) ==
  \/ combine_data_raises(m)
  \/ m.type \notin {"spectrum", "new scan"}

\* C17: when the combiner takes a malformed record from inqueue, an error
\* reaches get_data, the caller of combine_data; the record is not dropped
\* silently
C17_Propagated ==
  [][(alive /\ inqueue # << >> /\ inqueue' = Tail(inqueue)
        /\ Malformed(Head(inqueue))) => ~alive']_vars

\* C19: every invocation goes to one subscriber, the one the most recent
\* start() supplied, with the composite completed in the same step; a
\* subscriber that a later start() has replaced is not invoked
C19_OneSubscriber ==
  [][invoked' # invoked =>
       /\ start_cb # 0
       /\ invoked' = Append(invoked, start_cb)
       /\ Len(NewComposites) = 1
       /\ received' = Append(received, NewComposites[1])
    ]_vars

C19_Witness ==
  /\ Len(invoked) = 2
  /\ invoked[1] # invoked[2]
  /\ Len(received) = 2
  /\ start_cb = invoked[2]

\* C20: once the composite of a key has been handed to process_data,
\* spectra_dict holds no entry for the key
C20_Removed ==
  \A i \in DOMAIN composites :
     ~ /\ composites[i].scan \in DOMAIN spectra_dict
       /\ composites[i].record \in DOMAIN spectra_dict[composites[i].scan]

\* C16: when the fetch of a unit fails, the failure leaves action(): the
\* cycle puts no record on inqueue and changes no table of the combiner,
\* the unit puts nothing afterwards, and the other units and the combiner
\* still have their steps to take
C16_FetchFailure ==
  /\ [](/\ \A v \in Units :
             (pc[v] # "failed" /\ ~Suspended(v)) => ENABLED UnitStep(v)
        /\ alive
        /\ inqueue # << >> => ENABLED CombinerStep)
  /\ [][\A u \in Units :
          /\ (pc[u] = "fetch" /\ pc'[u] # "fetch") =>
                \/ pc'[u] = "idle" /\ Emits(u)
                \/ /\ pc'[u] = "failed"
                   /\ sent' = sent
                   /\ inqueue' = inqueue
                   /\ spectra_dict' = spectra_dict
                   /\ timedata' = timedata
          /\ pc[u] = "failed" => (pc'[u] = "failed" /\ sent'[u] = sent[u])
       ]_vars

C16_Witness ==
  \E u, v \in Units :
     /\ pc[u] = "failed"
     /\ pc[v] # "failed"
     /\ Len(sent[v]) > Len(sent[u])
     /\ LastSent(v).type = "new scan"
     /\ Len(composites) < Len(sent[v]) - 1
     /\ inqueue = << >>

\* C18: get_current_scans() and get_current_accums() read, for every
\* configured unit, the unit's scan number or record counter, return a map
\* with exactly one entry per unit, and change no unit's state
C18_StatusMaps ==
  [][/\ (query' # query \/ reply' # reply) => UNCHANGED unitVars
     /\ \A name \in (DOMAIN query'.acc) \ (DOMAIN query.acc) :
           query'.acc[name] = IF query'.kind = "scans" THEN scan[name]
                              ELSE spectrum_count[name]
     /\ (query.todo # << >> /\ query'.todo = << >>) =>
           (reply' = query'.acc /\ DOMAIN reply' = Units)
    ]_vars

C18_Witness ==
  /\ query.kind = "accums"
  /\ query.todo = << >>
  /\ DOMAIN reply = Units
  /\ \E u \in Units : reply[u] >= 1 /\ reply[u] # max_count[u]

\* C21 as stated: a step of a unit that emits a scan boundary puts the scan
\* number of before the increment in the record, then scan is one more, the
\* counter is 0 and the unit is Suspended
C21_Original ==
  [][\A u \in Units :
        EmitsBoundary(u) =>
          /\ sent'[u][Len(sent'[u])].scan = scan[u]
          /\ scan'[u] = scan[u] + 1
          /\ spectrum_count'[u] = 0
          /\ Suspended(u)']_vars

\* C21: a step of a unit that emits a scan boundary increments scan first
\* and puts the incremented number in the record; after the step scan is one
\* more than before, the counter is 0 and the unit is Suspended
C21_Boundary ==
  [][\A u \in Units :
        EmitsBoundary(u) =>
          /\ sent'[u][Len(sent'[u])].scan = scan[u] + 1
          /\ sent'[u][Len(sent'[u])].scan = scan'[u]
          /\ spectrum_count'[u] = 0
          /\ Suspended(u)']_vars

C21_Witness ==
  \E u \in Units :
     /\ Len(sent[u]) >= 1
     /\ LastSent(u).type = "new scan"
     /\ LastSent(u).scan = scan[u]
     /\ scan[u] >= 2
     /\ spectrum_count[u] = 0
     /\ Suspended(u)

\* the combiner thread takes a record from inqueue in this step
CombinerTakes == alive /\ inqueue # << >> /\ inqueue' = Tail(inqueue)

\* C22: when the combiner handles a scan boundary record the pending tables
\* stay as they are and no composite is produced or delivered
C22_BoundaryIgnored ==
  [][(CombinerTakes /\ Head(inqueue).type = "new scan") =>
        UNCHANGED << spectra_dict, timedata, composites, received >>]_vars

C22_Witness ==
  /\ spectra_dict # EmptyDict
  /\ composites = << >>
  /\ \E u \in Units :
        /\ Len(handled[u]) >= 2
        /\ handled[u][Len(handled[u])].type = "new scan"

\* the subscriber's handler is invoked with a composite in this step
HandlerGetsComposite ==
  /\ Len(received') = Len(received) + 1
  /\ received'[Len(received')].type = "data"

\* C23: when a composite is delivered to the subscriber's handler, the scan
\* table has afterwards done = false and the composite's record number for
\* every unit that contributed to the composite
C23_Accepted ==
  [][HandlerGetsComposite =>
        LET msg == received'[Len(received')]
        IN \A name \in DOMAIN msg.data :
              /\ scans'[name].done = FALSE
              /\ scans'[name].record = msg.record]_vars

\* the client's combiner thread takes a record from combinerQueue in this
\* step
ClientCombinerTakes ==
  combinerQueue # << >> /\ combinerQueue' = Tail(combinerQueue)

\* C24: the scan table is written by the thread of combine_spectra only: a
\* step that changes it is a step of that thread
C24_OneWriter == [][scans' # scans => ClientCombinerTakes]_vars

\* C25: spectra_dict and timedata change only in a step in which the
\* combiner thread takes a record from inqueue; the steps of the unit
\* threads and of the control calls leave both tables as they are
C25_CombinerOnly ==
  [][(spectra_dict' # spectra_dict \/ timedata' # timedata) =>
        CombinerTakes]_vars

C25_Witness ==
  /\ spectra_dict # EmptyDict
  /\ cmds = MaxCmds
  /\ \E u \in Units :
        /\ Len(sent[u]) >= 2
        /\ Len(sent[u]) > Len(handled[u])
        /\ LastSent(u).type = "spectrum"
        /\ ~ /\ LastSent(u).scan \in DOMAIN spectra_dict
             /\ LastSent(u).record \in DOMAIN spectra_dict[LastSent(u).scan]

\* the combiner thread is blocked in inqueue.get()
CombinerWaits == alive /\ ~busy /\ inqueue = << >>

\* C26: in every state in which the combiner thread is blocked waiting on
\* its input queue it holds no ownership claim on the caller's proxy
C26_Released == CombinerWaits => ~claimed

\* C27: while the subscriber is still executing a notification the combiner
\* thread can take the next record from a non-empty inqueue
C27_NotBlocked == (alive /\ busy /\ inqueue # << >>) => ENABLED CombinerCall

\* C28: a composite is handed to the parent's handler only for a key all of
\* whose contributions have the shape that can be merged; a key with a
\* contribution of another shape gets none
C28_Incomplete ==
  [][c_out' # c_out =>
        LET m == c_out'[Len(c_out')]
        IN \A name \in Units :
              Fits(c_spectra_dict'[m.scan][m.record][name])]_vars

\* C29: when MaxTries opens of the record store have failed for one call of
\* get_spectrum_from_file, the call has ended with the failure raised and
\* makes no further attempt
C29_Bounded ==
  (opening.tries = MaxTries /\ ~opening.raised) =>
     ~ENABLED (\E kind \in {"locked", "ioerror"} : OpenFails(kind))

\* the index of the last record unit u has emitted in its running scan
LastIndex(u) ==
  IF sent[u] = << >> \/ LastSent(u).type # "spectrum" THEN 0
  ELSE LastSent(u).record

\* C30 as stated: while a unit waits out its integration period its counter
\* is the index of the last record it has emitted, the increment coming
\* only after the wait
C30_Original ==
  \A u \in Units : pc[u] = "fetch" => spectrum_count[u] = LastIndex(u)

\* C30: every cycle of a unit begins with the increment of its counter; the
\* wait for the integration is entered after the increment, with the
\* counter as incremented, and only in a cycle that emits a spectrum; the
\* cycle that emits the scan boundary has no wait; the record emitted when
\* the wait ends carries the counter as it is then
C30_CountFirst ==
  [][\A u \in Units :
        /\ (pc[u] = "idle" /\ pc'[u] # "idle") =>
              /\ pc'[u] = "counted"
              /\ spectrum_count'[u] = spectrum_count[u] + 1
        /\ (pc[u] # "fetch" /\ pc'[u] = "fetch") =>
              /\ pc[u] = "counted"
              /\ spectrum_count'[u] = spectrum_count[u]
        /\ EmitsBoundary(u) => pc[u] = "counted"
        /\ (pc[u] = "fetch" /\ Emits(u)) =>
              /\ sent'[u][Len(sent'[u])].type = "spectrum"
              /\ sent'[u][Len(sent'[u])].record = spectrum_count[u]]_vars

C30_Witness ==
  \E u \in Units :
     /\ pc[u] = "fetch"
     /\ spectrum_count[u] = MaxCount
     /\ LastIndex(u) = MaxCount - 1
     /\ LastIndex(u) >= 1

\* C31: every record the combiner has taken carries a scan number of at
\* least 1, and every spectrum record a record number of at least 1
C31_OneBased ==
  \A u \in Units : \A i \in DOMAIN handled[u] :
     /\ handled[u][i].scan >= 1
     /\ handled[u][i].type = "spectrum" => handled[u][i].record >= 1

\* start() handles its next unit in this step
StartHandlesUnit == ctl.todo # << >> /\ ctl'.todo = Tail(ctl.todo)

\* C32: the step of start() for a unit resumes the unit's thread, sets its
\* counter to zero and invokes the subscriber's handler once, with the
\* start time
C32_StartNotifies ==
  [][StartHandlesUnit =>
        LET u == Head(ctl.todo)
        IN /\ ~thread_suspend'[u]
           /\ spectrum_count'[u] = 0
           /\ Len(received') = Len(received) + 1
           /\ Len(invoked') = Len(invoked) + 1]_vars

\* the key of composite a comes before the key of composite b
KeyLess(a, b) ==
  a.scan < b.scan \/ (a.scan = b.scan /\ a.record < b.record)

\* C33: when start() is issued only while all units are Suspended and
\* reset_scans() is not called, the composites are handed to process_data
\* in strictly increasing order of (scan, record)
C33_Increasing ==
  \A i, j \in DOMAIN composites :
     i < j => KeyLess(composites[i], composites[j])

\* the combiner has taken a spectrum of unit u for the key (s, r) that the
\* unit emitted after the last reset_scans()
FreshContribution(h, u, s, r) ==
  \E i \in (hist[u].mark + 1)..Len(h[u]) :
     /\ h[u][i].type = "spectrum"
     /\ h[u][i].scan = s
     /\ h[u][i].record = r

\* the combiner takes, in this step, a record that unit u emitted in a scan
\* begun by a start() that came after the last reset_scans()
TakesAfterReset(u) ==
  /\ Len(handled'[u]) > Len(handled[u])
  /\ hist[u].clean
  /\ hist[u].mark >= 1
  /\ hist[u].base >= hist[u].mark
  /\ Len(handled'[u]) > hist[u].base

\* C34: after reset_scans() and a new start(), a composite is handed to
\* process_data for a key only when every unit has contributed a spectrum
\* for the key since the reset
C34_FreshOnly ==
  [][\A v \in Units :
        (TakesAfterReset(v) /\ Len(composites') > Len(composites)) =>
           LET m == composites'[Len(composites')]
           IN \A u \in Units :
                 FreshContribution(handled', u, m.scan, m.record)]_vars

\* every unit is Suspended after the scan of the last start()
AllDone ==
  /\ cmds >= 1
  /\ ctl.todo = << >>
  /\ \A u \in Units : Suspended(u)

\* a status call reads the attribute of its next unit in this step
StatusReads == query.todo # << >> /\ query'.todo = Tail(query.todo)

\* C35: when every start() is issued while all units are Suspended and no
\* other command is used, every spectrum of the scan of the k-th start()
\* carries scan = k, and when all units are Suspended again
\* get_current_scans() reads k + 1 and get_current_accums() reads 0 for
\* every unit
C35_LockStep ==
  /\ [][\A u \in Units :
           (Emits(u) /\ sent'[u][Len(sent'[u])].type = "spectrum") =>
              sent'[u][Len(sent'[u])].scan = cmds]_vars
  /\ [][(AllDone /\ StatusReads) =>
           query'.acc[Head(query.todo)] =
              IF query.kind = "scans" THEN cmds + 1 ELSE 0]_vars

C35_Witness ==
  /\ AllDone
  /\ cmds = MaxCmds
  /\ query.kind = "scans"
  /\ query.todo = << >>
  /\ \A u \in Units :
        /\ u \in DOMAIN reply
        /\ reply[u] = MaxCmds + 1
        /\ Len(SpectraOf(u, MaxCmds)) >= 1

\* C36: the counter a get_current_accums() call reads for a unit is at
\* least 0 and at most the unit's max_count
C36_InRange ==
  [][(StatusReads /\ query.kind = "accums") =>
        LET name == Head(query.todo)
        IN /\ query'.acc[name] >= 0
           /\ query'.acc[name] <= max_count[name]]_vars

\* C37: when combine_data raises because the record lacks a field it
\* reads, spectra_dict and timedata are as they were before the record was
\* taken, and no composite is produced
C37_Untouched ==
  [][(CombinerTakes /\ combine_data_raises(Head(inqueue))) =>
        UNCHANGED << spectra_dict, timedata, composites >>]_vars

C37_Witness ==
  /\ ~alive
  /\ spectra_dict # EmptyDict
  /\ \E i \in DOMAIN handled[dsplist[1]] :
        /\ i >= 2
        /\ combine_data_raises(handled[dsplist[1]][i])
        /\ "scan" \in DOMAIN handled[dsplist[1]][i]
        /\ handled[dsplist[1]][i].scan \notin DOMAIN spectra_dict
====
